---- MODULE Spec2Model ----
(***************************************************************************)
(* A model of the EnergyPlus weather scraper: the priority merge store     *)
(* (src/data_handler.py), the EPW LOCATION line parser (src/parser.py),    *)
(* the partial fetch and the crawl loop (src/scraper.py), the top-level    *)
(* run (src/main.py) and the CSV exporter (src/utils.py).                  *)
(*                                                                         *)
(* Text is a sequence of one-character strings, bytes are a sequence of    *)
(* one-byte names, and an optional value (Python's None) is a sequence of  *)
(* length 0 (None) or 1 (the value).                                       *)
(***************************************************************************)
EXTENDS Integers, Sequences, FiniteSets, TLC

VARIABLES
    urls,                   \* scrape: the list of EPW urls
    i,                      \* scrape: 1-based position of the url being processed
    retries,                \* scrape: retries of the current url
    epw_header,             \* scrape: Optional bytes of the current url
    first_line,             \* scrape: Optional text, the extracted first line
    new_location,           \* scrape: Optional record, the parsed location
    processed_locations,    \* the merge store: wmo_index -> location record
    successfully_processed, \* scrape: count of inserted records
    pc,                     \* position in scrape / in the harness of a pure function
    raised,                 \* name of an exception that left the function, "" if none
    priority,               \* the priority table handed to add_location
    response,               \* fetch harness: what requests.get meets
    attempts,               \* crawl history: url position -> fetch attempts made
    visited,                \* crawl history: url positions in the order the loop took them
    outcome,                \* crawl history: url position -> how the url ended
    calls,                  \* merge harness history: the add_location calls made
    tokens,                 \* parse harness: the tokens the input line was built from
    parsed,                 \* crawl history: url position -> Optional record parsed from it
    features,               \* scrape: locations, the features of the GeoJSON index
    log,                    \* scrape: the progress and summary messages logged
    events,                 \* history: the calls made, in order
    final_locations         \* main: Optional mapping the crawl returned

vars == <<urls, i, retries, epw_header, first_line, new_location, processed_locations,
          successfully_processed, pc, raised, priority, response, attempts, visited,
          outcome, calls, tokens, parsed, features, log, events, final_locations>>

----------------------------------------------------------------------------
(* Bounds of the model *)

MaxUrls == 2

MaxCalls == 2

MaxTrailing == 10

MaxFeatures == 3

----------------------------------------------------------------------------
(* Python values *)

None == <<>>

Some(v) == <<v>>

NoException == ""

Min(a, b) == IF a < b THEN a ELSE b

(* Text literals *)
T_LOCATION == <<"L","O","C","A","T","I","O","N">>
T_NOLOCATION == <<"N","O","L","O","C","A","T","I","O","N">>
T_location == <<"l","o","c","a","t","i","o","n">>
T_TMY3 == <<"T","M","Y","3">>
T_TMY2 == <<"T","M","Y","2">>
T_TMY == <<"T","M","Y">>
T_CWEC == <<"C","W","E","C">>
T_CSWD == <<"C","S","W","D">>
T_IWEC == <<"I","W","E","C">>
T_SWERA == <<"S","W","E","R","A">>
T_CTZRV2 == <<"C","T","Z","R","V","2">>
T_XYZ == <<"X","Y","Z">>
T_IWEC_Data == <<"I","W","E","C"," ","D","a","t","a">>
T_GENEVA == <<"G","E","N","E","V","A">>
T_Geneva == <<"G","e","n","e","v","a">>
T_pASO == <<"p","A","S","O"," ","r","O","b">>
T_CA == <<"C","A">>
T_dash == <<"-">>
T_USA == <<"U","S","A">>
T_id1 == <<"7","2","3">>
T_id2 == <<"0","6","7">>
T_lat == <<"3","5",".","6">>
T_lon == <<"-","1","2","0">>
T_tz == <<"-","8",".","0">>
T_elev == <<"2","4","4">>
T_EXTRA == <<"E","X","T","R","A">>

----------------------------------------------------------------------------
(* src/config.py *)

MAX_RETRIES == 3

SOURCE_PRIORITY ==
    [s \in {T_TMY3, T_CWEC, T_CSWD, T_IWEC, T_SWERA, T_TMY2, T_TMY, T_CTZRV2} |->
        CASE s = T_TMY3 -> 10
          [] s = T_CWEC -> 9
          [] s = T_CSWD -> 8
          [] s = T_IWEC -> 7
          [] s = T_SWERA -> 6
          [] s = T_TMY2 -> 5
          [] s = T_TMY -> 4
          [] s = T_CTZRV2 -> 3]

FIELD_NAMES ==
    <<"location", "region", "country", "weather_source", "wmo_index",
      "latitude", "longitude", "tz_offset", "elevation">>

(* tests/test_data_handler.py: the table the tests hand to add_location *)
SAMPLE_PRIORITY ==
    [s \in {T_TMY3, T_TMY2, T_IWEC} |->
        CASE s = T_TMY3 -> 10
          [] s = T_TMY2 -> 9
          [] s = T_IWEC -> 8]

----------------------------------------------------------------------------
(* Python dict operations *)

\* dict.get(key, default)
DictGet(d, key, default) == IF key \in DOMAIN d THEN d[key] ELSE default

\* d[key] = value
DictSet(d, key, value) ==
    [k \in DOMAIN d \cup {key} |-> IF k = key THEN value ELSE d[k]]

\* dict(zip(keys, data, strict=False)): pairs up to the shorter length; a later
\* duplicate key would win, and the keys of FIELD_NAMES are distinct
DictZip(keys, data) ==
    [k \in {keys[j] : j \in 1..Min(Len(keys), Len(data))} |->
        data[CHOOSE j \in 1..Min(Len(keys), Len(data)) : keys[j] = k]]

----------------------------------------------------------------------------
(* src/data_handler.py *)

\* the comparison of add_location with the tie handed to the new record
HigherPriorityOrTie(new_weather_source, existing_weather_source, table) ==
    DictGet(table, new_weather_source, 0) >= DictGet(table, existing_weather_source, 0)

\* line 40: priority.get(new, 0) > priority.get(existing, 0)
HigherPriority(new_weather_source, existing_weather_source, table) ==
    DictGet(table, new_weather_source, 0) > DictGet(table, existing_weather_source, 0)

\* add_location with the lookup of an unranked source defaulting to a top rank
add_location_absent_first(location, locations, table) ==
    LET wmo_index == location["wmo_index"]
    IN  IF wmo_index \notin DOMAIN locations
        THEN DictSet(locations, wmo_index, location)
        ELSE IF DictGet(table, location["weather_source"], 99)
                  > DictGet(table, locations[wmo_index]["weather_source"], 0)
             THEN DictSet(locations, wmo_index, location)
             ELSE locations

\* add_location that ranks a record for an absent id like one for a present id
add_location_no_insert(location, locations, table) ==
    LET wmo_index == location["wmo_index"]
    IN  IF wmo_index \in DOMAIN locations
           /\ HigherPriority(location["weather_source"],
                             locations[wmo_index]["weather_source"], table)
        THEN DictSet(locations, wmo_index, location)
        ELSE locations

\* add_location(new_location, processed_locations, priority): the store afterwards
add_location(location, locations, table) ==
    LET wmo_index == location["wmo_index"]
    IN  IF wmo_index \notin DOMAIN locations
        THEN DictSet(locations, wmo_index, location)
        ELSE IF HigherPriority(location["weather_source"],
                               locations[wmo_index]["weather_source"], table)
             THEN DictSet(locations, wmo_index, location)
             ELSE locations

----------------------------------------------------------------------------
(* Python str operations *)

UpperLetters ==
    <<"A","B","C","D","E","F","G","H","I","J","K","L","M","N","O","P","Q","R","S",
      "T","U","V","W","X","Y","Z","u00C9","u00C3","u0178">>

LowerLetters ==
    <<"a","b","c","d","e","f","g","h","i","j","k","l","m","n","o","p","q","r","s",
      "t","u","v","w","x","y","z","u00E9","u00E3","u00FF">>

LetterIndex(letters, c) == CHOOSE j \in 1..Len(letters) : letters[j] = c

IsUpper(c) == \E j \in 1..Len(UpperLetters) : UpperLetters[j] = c

IsLower(c) == \E j \in 1..Len(LowerLetters) : LowerLetters[j] = c

IsCased(c) == IsUpper(c) \/ IsLower(c)

ToUpper(c) == IF IsLower(c) THEN UpperLetters[LetterIndex(LowerLetters, c)] ELSE c

ToLower(c) == IF IsUpper(c) THEN LowerLetters[LetterIndex(UpperLetters, c)] ELSE c

\* str.title(): a cased character is upper-cased when the character before it is
\* not cased (or there is none) and lower-cased otherwise
StrTitle(s) ==
    [j \in 1..Len(s) |->
        IF j > 1 /\ IsCased(s[j - 1]) THEN ToLower(s[j]) ELSE ToUpper(s[j])]

\* str.find(c): 1-based position of the first c, 0 for Python's -1
StrFind(s, c) ==
    IF \E j \in 1..Len(s) : s[j] = c
    THEN CHOOSE j \in 1..Len(s) : s[j] = c /\ \A k \in 1..(j - 1) : s[k] # c
    ELSE 0

Whitespace == {" ", "\t", "\n", "\r"}

\* str.strip()
StrStrip(s) ==
    LET keep == {j \in 1..Len(s) : s[j] \notin Whitespace}
    IN  IF keep = {} THEN <<>>
        ELSE LET lo == CHOOSE j \in keep : \A k \in keep : j <= k
                 hi == CHOOSE j \in keep : \A k \in keep : k <= j
             IN  SubSeq(s, lo, hi)

\* str.split(","): the texts between the commas, always at least one token
StrSplit(s) ==
    LET commas == {j \in 1..Len(s) : s[j] = ","}
        \* the position of the k-th comma; 0 and Len(s) + 1 stand for the two ends
        Cut(k) == IF k = 0 THEN 0
                  ELSE IF k > Cardinality(commas) THEN Len(s) + 1
                  ELSE CHOOSE j \in commas : Cardinality({c \in commas : c < j}) = k - 1
    IN  [k \in 1..(Cardinality(commas) + 1) |-> SubSeq(s, Cut(k - 1) + 1, Cut(k) - 1)]

\* ",".join(parts)
RECURSIVE StrJoin(_)
StrJoin(parts) ==
    IF Len(parts) = 0 THEN <<>>
    ELSE IF Len(parts) = 1 THEN parts[1]
    ELSE parts[1] \o <<",">> \o StrJoin(Tail(parts))

----------------------------------------------------------------------------
(* src/parser.py *)

DECODING_SCHEMES == <<"utf-8", "iso-8859-1">>

\* the guard of parse_epw_location_line without the test of the marker
MalformedCountOnly(data) == Len(FIELD_NAMES) # Len(data) - 1

\* line 102: data[0] != "LOCATION" or len(keys) != len(data) - 1
Malformed(data) == data[1] # T_LOCATION \/ Len(FIELD_NAMES) # Len(data) - 1

\* the parser with the region cleared up to 2 characters
parse_epw_location_line_region2(line) ==
    LET data == StrSplit(line)
    IN  IF Malformed(data)
        THEN [raised |-> "MalformedLocationDataError", value |-> None]
        ELSE LET d1 == Tail(data)
                 d2 == [d1 EXCEPT ![1] = StrTitle(d1[1])]
                 d3 == IF Len(d2[2]) <= 2 THEN [d2 EXCEPT ![2] = <<>>] ELSE d2
             IN  [raised |-> NoException, value |-> Some(DictZip(FIELD_NAMES, d3))]

\* the parser with every field title-cased
parse_epw_location_line_title_all(line) ==
    LET data == StrSplit(line)
    IN  IF Malformed(data)
        THEN [raised |-> "MalformedLocationDataError", value |-> None]
        ELSE LET d1 == Tail(data)
                 d2 == [j \in DOMAIN d1 |-> StrTitle(d1[j])]
                 d3 == IF Len(d2[2]) < 2 THEN [d2 EXCEPT ![2] = <<>>] ELSE d2
             IN  [raised |-> NoException, value |-> Some(DictZip(FIELD_NAMES, d3))]

\* the parser with a short region dropped from the list instead of blanked
parse_epw_location_line_drop_region(line) ==
    LET data == StrSplit(line)
    IN  IF Malformed(data)
        THEN [raised |-> "MalformedLocationDataError", value |-> None]
        ELSE LET d1 == Tail(data)
                 d2 == [d1 EXCEPT ![1] = StrTitle(d1[1])]
                 d3 == IF Len(d2[2]) < 2 THEN <<d2[1]>> \o SubSeq(d2, 3, Len(d2)) ELSE d2
             IN  [raised |-> NoException, value |-> Some(DictZip(FIELD_NAMES, d3))]

\* parse_epw_location_line(line): the exception raised ("" when none) and the dict
parse_epw_location_line(line) ==
    LET data == StrSplit(line)
    IN  IF Malformed(data)
        THEN [raised |-> "MalformedLocationDataError", value |-> None]
        ELSE LET d1 == Tail(data)
                 d2 == [d1 EXCEPT ![1] = StrTitle(d1[1])]
                 d3 == IF Len(d2[2]) < 2 THEN [d2 EXCEPT ![2] = <<>>] ELSE d2
             IN  [raised |-> NoException, value |-> Some(DictZip(FIELD_NAMES, d3))]

\* bytes.decode("utf-8"): None for UnicodeDecodeError. The bytes of the model are
\* the ASCII bytes (named by their character), xC3 and xA9 (together the UTF-8
\* form of u00E9) and xFF (never valid in UTF-8).
Utf8Valid(content) ==
    \A j \in 1..Len(content) :
        /\ content[j] # "xFF"
        /\ content[j] = "xC3" => (j < Len(content) /\ content[j + 1] = "xA9")
        /\ content[j] = "xA9" => (j > 1 /\ content[j - 1] = "xC3")

NotContinuation(b) == b # "xA9"

DecodeUtf8(content) ==
    IF Utf8Valid(content)
    THEN Some(SelectSeq([j \in 1..Len(content) |->
                            IF content[j] = "xC3" THEN "u00E9" ELSE content[j]],
                        NotContinuation))
    ELSE None

\* bytes.decode("iso-8859-1"): every byte is a character, it never fails
DecodeLatin1(content) ==
    Some([j \in 1..Len(content) |->
            CASE content[j] = "xC3" -> "u00C3"
              [] content[j] = "xA9" -> "u00A9"
              [] content[j] = "xFF" -> "u00FF"
              [] OTHER -> content[j]])

Decode(content, encoding) ==
    IF encoding = "utf-8" THEN DecodeUtf8(content) ELSE DecodeLatin1(content)

\* _try_decode_bytes(content, url): the first scheme that decodes, else None
RECURSIVE TryDecodeFrom(_, _)
TryDecodeFrom(content, attempt) ==
    IF attempt > Len(DECODING_SCHEMES) THEN None
    ELSE LET decoded_text == Decode(content, DECODING_SCHEMES[attempt])
         IN  IF decoded_text = None THEN TryDecodeFrom(content, attempt + 1)
             ELSE decoded_text

try_decode_bytes(content) == TryDecodeFrom(content, 1)

\* the extraction without the test of find's result: text[:-1] when no newline
extract_epw_location_line_unchecked(epw_content) ==
    LET decoded_text == try_decode_bytes(epw_content)
    IN  IF decoded_text = None THEN None
        ELSE LET newline_pos == StrFind(decoded_text[1], "\n")
             IN  IF newline_pos # 0
                 THEN Some(StrStrip(SubSeq(decoded_text[1], 1, newline_pos - 1)))
                 ELSE Some(StrStrip(SubSeq(decoded_text[1], 1, Len(decoded_text[1]) - 1)))

\* extract_epw_location_line(epw_content, source_url)
extract_epw_location_line(epw_content) ==
    LET decoded_text == try_decode_bytes(epw_content)
    IN  IF decoded_text = None THEN None
        ELSE LET newline_pos == StrFind(decoded_text[1], "\n")
             IN  IF newline_pos # 0
                 THEN Some(StrStrip(SubSeq(decoded_text[1], 1, newline_pos - 1)))
                 ELSE None

----------------------------------------------------------------------------
(* src/scraper.py: _fetch_epw_header *)

\* requests.exceptions.RequestException and the subclasses the model raises
RequestExceptions == {"Timeout", "ConnectionError", "HTTPError", "ChunkedEncodingError"}

\* response.raise_for_status() (line 206): HTTPError for a 4xx or 5xx status
RaiseForStatus(status_code) ==
    IF 400 <= status_code /\ status_code < 600 THEN "HTTPError" ELSE NoException

\* the status test of _fetch_epw_header accepting the partial status alone
AcceptedStatusPartialOnly(status_code) == status_code = 206

\* line 208: response.status_code in [200, 206]
AcceptedStatus(status_code) == status_code \in {200, 206}

\* lines 214-219: except RequestException, then except Exception
FetchHandles(exc) == exc \in RequestExceptions \/ exc \in {"ValueError"}

\* the try block of _fetch_epw_header (lines 204-212): the exception it raises
\* ("" when none) and the value it returns
FetchTry(r) ==
    IF r.get_raises # NoException
    THEN [raised |-> r.get_raises, value |-> None]
    ELSE IF RaiseForStatus(r.status_code) # NoException
    THEN [raised |-> RaiseForStatus(r.status_code), value |-> None]
    ELSE IF ~AcceptedStatus(r.status_code)
    THEN [raised |-> NoException, value |-> None]
    ELSE IF r.content_raises # NoException
    THEN [raised |-> r.content_raises, value |-> None]
    ELSE [raised |-> NoException, value |-> Some(r.content)]

\* _fetch_epw_header(epw_file_url), for what the request meets
fetch_epw_header(r) ==
    LET t == FetchTry(r)
    IN  IF t.raised # NoException /\ FetchHandles(t.raised)
        THEN [raised |-> NoException, value |-> None]
        ELSE t

----------------------------------------------------------------------------
(* The inputs of the model *)

Fields(name, region, source, wmo) ==
    <<name, region, T_USA, source, wmo, T_lat, T_lon, T_tz, T_elev>>

LineOf(marker, name, region, source, wmo) ==
    StrJoin(<<marker>> \o Fields(name, region, source, wmo))

\* the byte buffers a server answers with
Body_TMY3 ==
    LineOf(T_LOCATION, T_pASO, T_CA, T_TMY3, T_id1) \o <<"\r", "\n", "D", "E", "\n">>

Body_IWEC == LineOf(T_LOCATION, T_GENEVA, T_dash, T_IWEC_Data, T_id1) \o <<"\n">>

Body_XYZ == LineOf(T_LOCATION, <<"N", "xC3", "xA9">>, T_dash, T_XYZ, T_id1) \o <<"\n">>

Body_Latin1 == LineOf(T_LOCATION, <<"N", "xFF">>, T_CA, T_IWEC, T_id2) \o <<"\n">>

Body_NoNewline == LineOf(T_LOCATION, T_GENEVA, T_dash, T_TMY3, T_id1)

Body_Malformed == LineOf(T_NOLOCATION, T_GENEVA, T_dash, T_TMY3, T_id1) \o <<"\n">>

Bodies == {Body_TMY3, Body_IWEC, Body_XYZ, Body_Latin1, Body_NoNewline, Body_Malformed}

Statuses == {200, 206, 204, 301, 404, 500}

\* what one requests.get can meet: the call raises, or a response arrives with
\* a status and a body whose read (response.content, the request streams) may raise
Responses ==
    {[get_raises |-> e, status_code |-> 0, content |-> <<>>, content_raises |-> NoException] :
        e \in {"Timeout", "ConnectionError", "ValueError"}}
    \cup
    {[get_raises |-> NoException, status_code |-> s, content |-> b, content_raises |-> e] :
        s \in Statuses, b \in Bodies, e \in {NoException, "ChunkedEncodingError"}}

NoResponse ==
    [get_raises |-> NoException, status_code |-> 0, content |-> <<>>,
     content_raises |-> NoException]

\* extract_epw_location_line tabulated over the buffers of the model, and
\* parse_epw_location_line over the lines they give: the crawl looks the result
\* up, TLC computes each once
HeaderLine == [b \in Bodies |-> extract_epw_location_line(b)]

ParsedLine ==
    [l \in {HeaderLine[b][1] : b \in {x \in Bodies : HeaderLine[x] # None}} |->
        parse_epw_location_line(l)]

\* the first n positions of a list
UrlList(n) == [j \in 1..n |-> j]

\* _get_epw_file_urls(locations): the urls of the features that carry one, in
\* the order of the features
HasUrl(location) == location # None

get_epw_file_urls(feature_list) == SelectSeq(feature_list, HasUrl)

\* the features of the index: one with an epw anchor is Some(its url), one
\* without properties or without a usable anchor is None; urls are numbered
FeatureLists ==
    {fs \in UNION {[1..n -> {None} \cup {Some(u) : u \in 1..MaxFeatures}] :
                      n \in 0..MaxFeatures} :
        /\ \A j \in DOMAIN fs : fs[j] # None => fs[j] = Some(j)
        /\ Len(get_epw_file_urls(fs)) <= MaxUrls}

\* location records for the merge harness
Loc(name, source, wmo) == DictZip(FIELD_NAMES, Fields(name, T_CA, source, wmo))

MergeSources == {T_TMY3, T_IWEC, T_XYZ, T_IWEC_Data}

MergeIds == {T_id1, T_id2}

MergeLocations ==
    {Loc(n, s, T_id1) : n \in {T_Geneva, <<"P","a","s","o">>}, s \in MergeSources}
    \cup {Loc(T_Geneva, s, T_id2) : s \in MergeSources}

EmptyStore == <<>>

MergeStores ==
    {st \in UNION {[D -> MergeLocations] : D \in SUBSET MergeIds} :
        \A k \in DOMAIN st : st[k]["wmo_index"] = k}

PriorityTables == {SOURCE_PRIORITY, SAMPLE_PRIORITY}

\* token lists for the parse harness: a marker and n trailing tokens
Trailing(fields, n) ==
    [j \in 1..n |-> IF j <= 9 THEN fields[j] ELSE T_EXTRA]

\* fields no validation would let through: lower case, blanks, an empty
\* station id, text where a number is expected
OddFields(name, region) ==
    <<name, region, <<"u","s","a">>, <<" ","t","m","y"," ">>, <<>>,
      <<"n","a","n">>, <<"+","0","1">>, <<"0","8",".","0">>, <<"x">>>>

ParseTokens ==
    {<<m>> \o Trailing(fields, n) :
        m \in {T_LOCATION, T_NOLOCATION, T_location, <<"L", "O", "C">>, <<>>},
        fields \in UNION {{Fields(name, region, T_IWEC_Data, T_id2),
                           OddFields(name, region)} :
                              name \in {T_GENEVA, T_pASO},
                              region \in {T_dash, T_CA, <<>>, <<"C">>}},
        n \in 0..MaxTrailing}

\* byte buffers for the extract harness: blanks, a first line, blanks, and what
\* follows it (nothing, a newline, more lines, a character cut by the range)
ExtractBuffers ==
    {lead \o core \o trail \o rest :
        lead \in {<<>>, <<" ">>, <<"\t", " ">>},
        core \in {<<>>, <<"A", " ", "B">>, <<"N", "xC3", "xA9">>, <<"N", "xFF">>},
        trail \in {<<>>, <<"\r">>, <<" ", "\r">>},
        rest \in {<<>>, <<"D">>, <<"\n">>, <<"\n", "D", "\n">>, <<"\n", "xC3">>}}

----------------------------------------------------------------------------
(* src/scraper.py: scrape, from the url list on (lines 31-77) *)

\* the while condition with the bound off by one
KeepFetchingInclusive(header, n) == header = None /\ n <= MAX_RETRIES

\* line 41: while epw_header is None and retries < MAX_RETRIES
KeepFetching(header, n) == header = None /\ n < MAX_RETRIES

\* a handler that lets the parser's error pass
ScrapeHandlesNothing(exc) == FALSE

\* line 60: except ValueError (MalformedLocationDataError is a ValueError)
ScrapeHandles(exc) == exc \in {"ValueError", "MalformedLocationDataError"}

\* line 66: the progress messages come every 50 records
PROGRESS_EVERY == 50

CrawlInit ==
    /\ features \in FeatureLists
    /\ urls = get_epw_file_urls(features)
    /\ i = 0
    /\ retries = 0
    /\ epw_header = None
    /\ first_line = None
    /\ new_location = None
    /\ processed_locations = EmptyStore
    /\ successfully_processed = 0
    /\ pc = "for"
    /\ raised = NoException
    /\ priority = SOURCE_PRIORITY
    /\ response = NoResponse
    /\ attempts = [u \in DOMAIN urls |-> <<>>]
    /\ visited = <<>>
    /\ outcome = [u \in DOMAIN urls |-> "pending"]
    /\ calls = <<>>
    /\ tokens = <<>>
    /\ parsed = [u \in DOMAIN urls |-> None]
    /\ log = <<>>
    /\ events = <<>>
    /\ final_locations = None

\* the loop without line 39: the attempt count carried over to the next url
NextUrlKeepCount ==
    /\ pc = "for"
    /\ i < Len(urls)
    /\ i' = i + 1
    /\ epw_header' = None
    /\ retries' = retries
    /\ visited' = Append(visited, i + 1)
    /\ pc' = "while"
    /\ UNCHANGED <<urls, first_line, new_location, processed_locations,
                   successfully_processed, raised, priority, response, attempts,
                   outcome, calls, tokens, parsed>>
    /\ UNCHANGED <<features, log, events, final_locations>>

\* line 37: the for loop takes the next url (lines 38-40)
NextUrl ==
    /\ pc = "for"
    /\ i < Len(urls)
    /\ i' = i + 1
    /\ epw_header' = None
    /\ retries' = 0
    /\ visited' = Append(visited, i + 1)
    /\ pc' = "while"
    /\ UNCHANGED <<urls, first_line, new_location, processed_locations,
                   successfully_processed, raised, priority, response, attempts,
                   outcome, calls, tokens, parsed>>
    /\ UNCHANGED <<features, log, events, final_locations>>

\* the attempt with the delay only after a failure
FetchAttemptDelayOnFailure ==
    /\ pc = "while"
    /\ KeepFetching(epw_header, retries)
    /\ \E r \in Responses :
        LET res == fetch_epw_header(r)
        IN  IF res.raised # NoException
            THEN /\ raised' = res.raised
                 /\ pc' = "raised"
                 /\ attempts' = [attempts EXCEPT ![i] = Append(@, FALSE)]
                 /\ UNCHANGED <<epw_header, retries>>
            ELSE /\ epw_header' = res.value
                 /\ retries' = retries + 1
                 /\ pc' = IF res.value # None THEN "while" ELSE "sleep"
                 /\ attempts' = [attempts EXCEPT ![i] = Append(@, res.value # None)]
                 /\ UNCHANGED raised
    /\ UNCHANGED <<urls, i, first_line, new_location, processed_locations,
                   successfully_processed, priority, response, visited, outcome,
                   calls, tokens, parsed>>
    /\ events' = Append(events, <<"fetch", i>>)
    /\ UNCHANGED <<features, log, final_locations>>

\* lines 41-45: one pass of the while loop up to the sleep
FetchAttempt ==
    /\ pc = "while"
    /\ KeepFetching(epw_header, retries)
    /\ \E r \in Responses :
        LET res == fetch_epw_header(r)
        IN  IF res.raised # NoException
            THEN /\ raised' = res.raised
                 /\ pc' = "raised"
                 /\ attempts' = [attempts EXCEPT ![i] = Append(@, FALSE)]
                 /\ UNCHANGED <<epw_header, retries>>
            ELSE /\ epw_header' = res.value
                 /\ retries' = retries + 1
                 /\ pc' = "sleep"
                 /\ attempts' = [attempts EXCEPT ![i] = Append(@, res.value # None)]
                 /\ UNCHANGED raised
    /\ UNCHANGED <<urls, i, first_line, new_location, processed_locations,
                   successfully_processed, priority, response, visited, outcome,
                   calls, tokens, parsed>>
    /\ events' = Append(events, <<"fetch", i>>)
    /\ UNCHANGED <<features, log, final_locations>>

\* line 46: time.sleep(REQUEST_DELAY)
Sleep ==
    /\ pc = "sleep"
    /\ pc' = "while"
    /\ UNCHANGED <<urls, i, retries, epw_header, first_line, new_location,
                   processed_locations, successfully_processed, raised, priority,
                   response, attempts, visited, outcome, calls, tokens, parsed>>
    /\ events' = Append(events, <<"sleep", i>>)
    /\ UNCHANGED <<features, log, final_locations>>

\* lines 48-50: the loop ended without a header
GiveUp ==
    /\ pc = "while"
    /\ ~KeepFetching(epw_header, retries)
    /\ epw_header = None
    /\ outcome' = [outcome EXCEPT ![i] = "fetch_failed"]
    /\ pc' = "for"
    /\ UNCHANGED <<urls, i, retries, epw_header, first_line, new_location,
                   processed_locations, successfully_processed, raised, priority,
                   response, attempts, visited, calls, tokens, parsed>>
    /\ UNCHANGED <<features, log, events, final_locations>>

\* lines 52-56: extract the first line of the header
Extract ==
    /\ pc = "while"
    /\ ~KeepFetching(epw_header, retries)
    /\ epw_header # None
    /\ first_line' = HeaderLine[epw_header[1]]
    /\ IF first_line' = None
       THEN /\ outcome' = [outcome EXCEPT ![i] = "decode_failed"]
            /\ pc' = "for"
       ELSE /\ pc' = "parse"
            /\ UNCHANGED outcome
    /\ UNCHANGED <<urls, i, retries, epw_header, new_location, processed_locations,
                   successfully_processed, raised, priority, response, attempts,
                   visited, calls, tokens, parsed>>
    /\ events' = Append(events, <<"extract", i>>)
    /\ UNCHANGED <<features, log, final_locations>>

\* lines 58-62: parse the line
Parse ==
    /\ pc = "parse"
    /\ LET res == ParsedLine[first_line[1]]
       IN  IF res.raised = NoException
           THEN /\ new_location' = res.value
                /\ parsed' = [parsed EXCEPT ![i] = res.value]
                /\ pc' = "merge"
                /\ UNCHANGED <<outcome, raised>>
           ELSE IF ScrapeHandles(res.raised)
           THEN /\ outcome' = [outcome EXCEPT ![i] = "malformed"]
                /\ pc' = "for"
                /\ UNCHANGED <<new_location, raised, parsed>>
           ELSE /\ raised' = res.raised
                /\ pc' = "raised"
                /\ UNCHANGED <<new_location, outcome, parsed>>
    /\ UNCHANGED <<urls, i, retries, epw_header, first_line, processed_locations,
                   successfully_processed, priority, response, attempts, visited,
                   calls, tokens>>
    /\ events' = Append(events, <<"parse", i>>)
    /\ UNCHANGED <<features, log, final_locations>>

\* lines 64-68: merge the record and count it
Merge ==
    /\ pc = "merge"
    /\ processed_locations' = add_location(new_location[1], processed_locations, priority)
    /\ successfully_processed' = successfully_processed + 1
    /\ outcome' = [outcome EXCEPT ![i] = "inserted"]
    /\ pc' = "for"
    /\ UNCHANGED <<urls, i, retries, epw_header, first_line, new_location, raised,
                   priority, response, attempts, visited, calls, tokens, parsed>>
    /\ events' = Append(events, <<"merge", i>>)
    /\ log' = IF successfully_processed' % PROGRESS_EVERY = 0
              THEN Append(log, [kind |-> "progress", attempted |-> Len(visited),
                                processed |-> successfully_processed',
                                failures |-> i - successfully_processed',
                                unique |-> Cardinality(DOMAIN processed_locations')])
              ELSE log
    /\ UNCHANGED <<features, final_locations>>

\* lines 70-77: the list is exhausted, the summary is logged, the store returned
Finish ==
    /\ pc = "for"
    /\ i = Len(urls)
    /\ pc' = "done"
    /\ UNCHANGED <<urls, i, retries, epw_header, first_line, new_location,
                   processed_locations, successfully_processed, raised, priority,
                   response, attempts, visited, outcome, calls, tokens, parsed>>
    /\ log' = Append(log, [kind |-> "summary", attempted |-> Len(visited),
                           processed |-> successfully_processed,
                           total |-> Len(features),
                           unique |-> Cardinality(DOMAIN processed_locations)])
    /\ UNCHANGED <<features, events, final_locations>>

Next == NextUrl \/ FetchAttempt \/ Sleep \/ GiveUp \/ Extract \/ Parse \/ Merge \/ Finish

Spec == CrawlInit /\ [][Next]_vars

\* scrape is one sequential thread: a step that can be taken is taken
FairSpec == Spec /\ WF_vars(Next)

----------------------------------------------------------------------------
(* add_location called on any store, with any record and table *)

MergeInit ==
    /\ urls = <<>>
    /\ i = 0
    /\ retries = 0
    /\ epw_header = None
    /\ first_line = None
    /\ new_location = None
    /\ processed_locations \in MergeStores
    /\ successfully_processed = 0
    /\ pc = "add_location"
    /\ raised = NoException
    /\ priority \in PriorityTables
    /\ response = NoResponse
    /\ attempts = <<>>
    /\ visited = <<>>
    /\ outcome = <<>>
    /\ calls = <<>>
    /\ tokens = <<>>
    /\ parsed = <<>>
    /\ features = <<>>
    /\ log = <<>>
    /\ events = <<>>
    /\ final_locations = None

CallAddLocation ==
    /\ pc = "add_location"
    /\ Len(calls) < MaxCalls
    /\ \E loc \in MergeLocations :
        /\ new_location' = Some(loc)
        /\ processed_locations' = add_location(loc, processed_locations, priority)
        /\ calls' = Append(calls, [location |-> loc, before |-> processed_locations,
                                   after |-> processed_locations'])
    /\ UNCHANGED <<urls, i, retries, epw_header, first_line, successfully_processed,
                   pc, raised, priority, response, attempts, visited, outcome,
                   tokens, parsed>>
    /\ UNCHANGED <<features, log, events, final_locations>>

MergeNext == CallAddLocation

SpecMerge == MergeInit /\ [][MergeNext]_vars

----------------------------------------------------------------------------
(* parse_epw_location_line called on any line *)

ParseInit ==
    /\ urls = <<>>
    /\ i = 0
    /\ retries = 0
    /\ epw_header = None
    /\ tokens \in ParseTokens
    /\ first_line = Some(StrJoin(tokens))
    /\ new_location = None
    /\ processed_locations = EmptyStore
    /\ successfully_processed = 0
    /\ pc = "parse_call"
    /\ raised = NoException
    /\ priority = SOURCE_PRIORITY
    /\ response = NoResponse
    /\ attempts = <<>>
    /\ visited = <<>>
    /\ outcome = <<>>
    /\ calls = <<>>
    /\ parsed = <<>>
    /\ features = <<>>
    /\ log = <<>>
    /\ events = <<>>
    /\ final_locations = None

CallParse ==
    /\ pc = "parse_call"
    /\ LET res == parse_epw_location_line(first_line[1])
       IN  /\ new_location' = res.value
           /\ raised' = res.raised
    /\ pc' = "parse_returned"
    /\ UNCHANGED <<urls, i, retries, epw_header, first_line, processed_locations,
                   successfully_processed, priority, response, attempts, visited,
                   outcome, calls, tokens, parsed>>
    /\ UNCHANGED <<features, log, events, final_locations>>

ParseNext == CallParse

SpecParse == ParseInit /\ [][ParseNext]_vars

----------------------------------------------------------------------------
(* extract_epw_location_line called on any buffer *)

ExtractInit ==
    /\ urls = <<>>
    /\ i = 0
    /\ retries = 0
    /\ epw_header \in {Some(b) : b \in ExtractBuffers}
    /\ first_line = None
    /\ new_location = None
    /\ processed_locations = EmptyStore
    /\ successfully_processed = 0
    /\ pc = "extract_call"
    /\ raised = NoException
    /\ priority = SOURCE_PRIORITY
    /\ response = NoResponse
    /\ attempts = <<>>
    /\ visited = <<>>
    /\ outcome = <<>>
    /\ calls = <<>>
    /\ tokens = <<>>
    /\ parsed = <<>>
    /\ features = <<>>
    /\ log = <<>>
    /\ events = <<>>
    /\ final_locations = None

CallExtract ==
    /\ pc = "extract_call"
    /\ first_line' = extract_epw_location_line(epw_header[1])
    /\ pc' = "extract_returned"
    /\ UNCHANGED <<urls, i, retries, epw_header, new_location, processed_locations,
                   successfully_processed, raised, priority, response, attempts,
                   visited, outcome, calls, tokens, parsed>>
    /\ UNCHANGED <<features, log, events, final_locations>>

ExtractNext == CallExtract

SpecExtract == ExtractInit /\ [][ExtractNext]_vars

----------------------------------------------------------------------------
(* _fetch_epw_header called against anything the request can meet *)

FetchInit ==
    /\ urls = <<>>
    /\ i = 0
    /\ retries = 0
    /\ epw_header = None
    /\ first_line = None
    /\ new_location = None
    /\ processed_locations = EmptyStore
    /\ successfully_processed = 0
    /\ pc = "fetch_call"
    /\ raised = NoException
    /\ priority = SOURCE_PRIORITY
    /\ response \in Responses
    /\ attempts = <<>>
    /\ visited = <<>>
    /\ outcome = <<>>
    /\ calls = <<>>
    /\ tokens = <<>>
    /\ parsed = <<>>
    /\ features = <<>>
    /\ log = <<>>
    /\ events = <<>>
    /\ final_locations = None

CallFetch ==
    /\ pc = "fetch_call"
    /\ LET res == fetch_epw_header(response)
       IN  /\ epw_header' = res.value
           /\ raised' = res.raised
    /\ pc' = "fetch_returned"
    /\ UNCHANGED <<urls, i, retries, first_line, new_location, processed_locations,
                   successfully_processed, priority, response, attempts, visited,
                   outcome, calls, tokens, parsed>>
    /\ UNCHANGED <<features, log, events, final_locations>>

FetchNext == CallFetch

SpecFetch == FetchInit /\ [][FetchNext]_vars

----------------------------------------------------------------------------
(* src/main.py: main, and src/utils.py: locations_to_csv *)

\* the truth of a dict: `if final_locations:`, `if not locations:`
Truthy(d) == d # EmptyStore

\* a handler that catches nothing
MainHandlesNothing(exc) == FALSE

\* main.py line 53: except Exception
MainHandles(exc) == exc \notin {"KeyboardInterrupt", "SystemExit", "GeneratorExit"}

\* what writing the file can meet: it goes through, the directory cannot be
\* made, the file cannot be opened, or a row fails after the file was opened
WriteOutcomes == {"written", "mkdir_OSError", "open_OSError", "csv.Error"}

\* locations_to_csv(locations, output_filename): what it does to the file
\* system; every error of the write is caught and logged (utils.py 53-58)
locations_to_csv(locs, w) ==
    IF ~Truthy(locs) THEN <<>>
    ELSE IF w = "written" THEN <<"file_written">>
    ELSE IF w = "csv.Error" THEN <<"file_partial">>
    ELSE <<>>

\* main.py imports crawl from src.scraper, which defines none: by the
\* specification the crawl returns a mapping of station id to record, and an
\* unexpected error may leave it
CrawlOutcomes ==
    {[raised |-> NoException, value |-> Some(st)] : st \in MergeStores}
    \cup {[raised |-> e, value |-> None] : e \in {"RuntimeError", "ValueError"}}

MainInit ==
    /\ urls = <<>>
    /\ i = 0
    /\ retries = 0
    /\ epw_header = None
    /\ first_line = None
    /\ new_location = None
    /\ processed_locations = EmptyStore
    /\ successfully_processed = 0
    /\ pc = "main_try"
    /\ raised = NoException
    /\ priority = SOURCE_PRIORITY
    /\ response = NoResponse
    /\ attempts = <<>>
    /\ visited = <<>>
    /\ outcome = <<>>
    /\ calls = <<>>
    /\ tokens = <<>>
    /\ parsed = <<>>
    /\ features = <<>>
    /\ log = <<>>
    /\ events = <<>>
    /\ final_locations = None

\* line 44: final_locations = crawl(url_queue, visited_urls)
MainCrawl ==
    /\ pc = "main_try"
    /\ \E o \in CrawlOutcomes :
        IF o.raised = NoException
        THEN /\ final_locations' = o.value
             /\ events' = events \o <<"crawl_called", "crawl_returned">>
             /\ pc' = "main_if"
             /\ UNCHANGED raised
        ELSE /\ raised' = o.raised
             /\ events' = events \o <<"crawl_called", "crawl_raised">>
             /\ pc' = "main_except"
             /\ UNCHANGED final_locations
    /\ UNCHANGED <<urls, i, retries, epw_header, first_line, new_location,
                   processed_locations, successfully_processed, priority, response,
                   attempts, visited, outcome, calls, tokens, parsed, features, log>>

\* lines 46-49: the crawl gave records, they are exported
MainExport ==
    /\ pc = "main_if"
    /\ Truthy(final_locations[1])
    /\ \E w \in WriteOutcomes :
        events' = events \o <<"locations_to_csv">> \o locations_to_csv(final_locations[1], w)
    /\ pc' = "main_finally"
    /\ UNCHANGED <<urls, i, retries, epw_header, first_line, new_location,
                   processed_locations, successfully_processed, raised, priority,
                   response, attempts, visited, outcome, calls, tokens, parsed,
                   features, log, final_locations>>

\* lines 50-51: the crawl gave nothing, a warning is logged
MainNoLocations ==
    /\ pc = "main_if"
    /\ ~Truthy(final_locations[1])
    /\ events' = Append(events, "warning")
    /\ pc' = "main_finally"
    /\ UNCHANGED <<urls, i, retries, epw_header, first_line, new_location,
                   processed_locations, successfully_processed, raised, priority,
                   response, attempts, visited, outcome, calls, tokens, parsed,
                   features, log, final_locations>>

\* lines 53-54: the error of the crawl is caught and logged
MainExcept ==
    /\ pc = "main_except"
    /\ MainHandles(raised)
    /\ events' = Append(events, "critical")
    /\ raised' = NoException
    /\ pc' = "main_finally"
    /\ UNCHANGED <<urls, i, retries, epw_header, first_line, new_location,
                   processed_locations, successfully_processed, priority, response,
                   attempts, visited, outcome, calls, tokens, parsed, features, log,
                   final_locations>>

\* lines 55-56: finally, then main returns, or the error no handler took leaves it
MainFinally ==
    /\ \/ pc = "main_finally" /\ pc' = "main_returned"
       \/ pc = "main_except" /\ ~MainHandles(raised) /\ pc' = "main_raised"
    /\ events' = Append(events, "finished")
    /\ UNCHANGED <<urls, i, retries, epw_header, first_line, new_location,
                   processed_locations, successfully_processed, raised, priority,
                   response, attempts, visited, outcome, calls, tokens, parsed,
                   features, log, final_locations>>

MainNext == MainCrawl \/ MainExport \/ MainNoLocations \/ MainExcept \/ MainFinally

SpecMain == MainInit /\ [][MainNext]_vars

----------------------------------------------------------------------------
(* Source-label canonicalization, as the specification and                 *)
(* tests/test_data_handler.py (test_clean_weather_source) describe it:     *)
(* src/data_handler.py defines no _clean_weather_source                    *)

Digits == {"0", "1", "2", "3", "4", "5", "6", "7", "8", "9"}

IsAlnum(c) == IsCased(c) \/ c \in Digits

\* strip the leading whitespace and separators, keep the leading alphanumeric run
clean_weather_source(label) ==
    LET alnum == {j \in 1..Len(label) : IsAlnum(label[j])}
    IN  IF alnum = {} THEN <<>>
        ELSE LET lo == CHOOSE j \in alnum : \A k \in alnum : j <= k
                 stop == {j \in lo..Len(label) : ~IsAlnum(label[j])}
                 hi == IF stop = {} THEN Len(label)
                       ELSE (CHOOSE j \in stop : \A k \in stop : j <= k) - 1
             IN  SubSeq(label, lo, hi)

----------------------------------------------------------------------------
(* Properties of the merge store, checked under SpecMerge *)

\* the rank of a source type: priority.get(source, 0)
Rank(source) == IF source \in DOMAIN priority THEN priority[source] ELSE 0

Ranked(source) == source \in DOMAIN priority

CallId(c) == c.location["wmo_index"]

CallSource(c) == c.location["weather_source"]

ExistingSource(c) == c.before[CallId(c)]["weather_source"]

\* the store `before` with the entry of the call's id set to the call's record
Replaced(c) ==
    [k \in DOMAIN c.before \cup {CallId(c)} |->
        IF k = CallId(c) THEN c.location ELSE c.before[k]]

\* C1: a call of add_location for a station id the store already holds replaces
\* the stored record by the incoming one exactly when the rank of the incoming
\* source is strictly greater than the rank of the stored source; with an equal
\* or lower rank the store is left as it was.
C1_ReplaceIffStrictlyHigher ==
    \A k \in 1..Len(calls) :
        LET c == calls[k]
        IN  CallId(c) \in DOMAIN c.before =>
                IF Rank(CallSource(c)) > Rank(ExistingSource(c))
                THEN c.after = Replaced(c)
                ELSE c.after = c.before

\* a replacement by a higher rank, then a tie with a different record left alone
C1_Witness ==
    /\ Len(calls) = 2
    /\ CallId(calls[1]) \in DOMAIN calls[1].before
    /\ Rank(CallSource(calls[1])) > Rank(ExistingSource(calls[1]))
    /\ calls[1].after # calls[1].before
    /\ CallId(calls[2]) = CallId(calls[1])
    /\ Rank(CallSource(calls[2])) = Rank(ExistingSource(calls[2]))
    /\ calls[2].location # calls[2].before[CallId(calls[2])]
    /\ processed_locations = calls[1].after

\* C2: a call of add_location for a station id the store does not hold inserts
\* the record whatever its source: afterwards the store maps the id to the
\* record, holds one entry more, and every other entry is unchanged.
C2_AbsentInserted ==
    \A k \in 1..Len(calls) :
        LET c == calls[k]
        IN  CallId(c) \notin DOMAIN c.before =>
                /\ DOMAIN c.after = DOMAIN c.before \cup {CallId(c)}
                /\ c.after[CallId(c)] = c.location
                /\ Cardinality(DOMAIN c.after) = Cardinality(DOMAIN c.before) + 1
                /\ \A other \in DOMAIN c.before : c.after[other] = c.before[other]

\* an unranked record inserted into a store that holds another station
C2_Witness ==
    /\ Len(calls) >= 1
    /\ calls[1].before # EmptyStore
    /\ CallId(calls[1]) \notin DOMAIN calls[1].before
    /\ ~Ranked(CallSource(calls[1]))
    /\ processed_locations[CallId(calls[1])] = calls[1].location

\* C3: inserting the same record twice in a row leaves the store as the first
\* insertion left it, and from an empty store the result is the single entry r.
C3_Idempotent ==
    \A k \in 1..(Len(calls) - 1) :
        calls[k].location = calls[k + 1].location =>
            /\ calls[k + 1].after = calls[k].after
            /\ calls[k].before = EmptyStore =>
                   /\ DOMAIN calls[k + 1].after = {CallId(calls[k])}
                   /\ calls[k + 1].after[CallId(calls[k])] = calls[k].location

\* the same record inserted twice into the empty store
C3_Witness ==
    /\ Len(calls) = 2
    /\ calls[1].before = EmptyStore
    /\ calls[1].location = calls[2].location
    /\ Cardinality(DOMAIN processed_locations) = 1

\* the store after inserting a and then b into st
AfterBoth(a, b, st) == add_location(b, add_location(a, st, priority), priority)

\* the higher ranked of two records of different rank
Higher(a, b) ==
    IF Rank(a["weather_source"]) > Rank(b["weather_source"]) THEN a ELSE b

\* the lower ranked of two records of different rank
Lower(a, b) ==
    IF Rank(a["weather_source"]) > Rank(b["weather_source"]) THEN b ELSE a

\* C4: for two records a, b of one station id inserted one after the other:
\* with different ranks the resulting store is the one the opposite order gives
\* and the lower ranked of the two is never the one retained; with equal ranks
\* the second insertion changes nothing, so the first inserted stays.
C4_OrderIndependentButTies ==
    \A k \in 1..(Len(calls) - 1) :
        LET a == calls[k].location
            b == calls[k + 1].location
            st == calls[k].before
            id == CallId(calls[k])
            final == calls[k + 1].after
        IN  CallId(calls[k + 1]) = id =>
                IF Rank(a["weather_source"]) # Rank(b["weather_source"])
                THEN /\ final = AfterBoth(b, a, st)
                     /\ final[id] # Lower(a, b)
                     /\ id \notin DOMAIN st => final[id] = Higher(a, b)
                     /\ (id \in DOMAIN st
                            /\ Rank(Higher(a, b)["weather_source"])
                                 > Rank(st[id]["weather_source"]))
                          => final[id] = Higher(a, b)
                ELSE /\ final = calls[k].after
                     /\ id \notin DOMAIN st => final[id] = a

\* a lower ranked record first and a higher ranked one second, for a new id
C4_Witness ==
    /\ Len(calls) = 2
    /\ CallId(calls[1]) = CallId(calls[2])
    /\ CallId(calls[1]) \notin DOMAIN calls[1].before
    /\ Rank(CallSource(calls[1])) < Rank(CallSource(calls[2]))
    /\ Rank(CallSource(calls[1])) > 0
    /\ processed_locations[CallId(calls[1])] = calls[2].location

\* C5: a stored record with an unranked source is replaced by a record of the
\* same id whose source has a rank above 0 and is left alone by one with an
\* unranked source; a stored record with a ranked source is left alone by one
\* with an unranked source.
C5_UnknownRanksZero ==
    \A k \in 1..Len(calls) :
        LET c == calls[k]
        IN  CallId(c) \in DOMAIN c.before =>
                /\ (~Ranked(ExistingSource(c)) /\ Rank(CallSource(c)) > 0)
                      => c.after = Replaced(c)
                /\ (~Ranked(ExistingSource(c)) /\ ~Ranked(CallSource(c)))
                      => c.after = c.before
                /\ (Ranked(ExistingSource(c)) /\ ~Ranked(CallSource(c)))
                      => c.after = c.before

\* an unranked record replaced by a ranked one, which an unranked one then
\* fails to replace
C5_Witness ==
    /\ Len(calls) = 2
    /\ CallId(calls[1]) \in DOMAIN calls[1].before
    /\ ~Ranked(ExistingSource(calls[1]))
    /\ Ranked(CallSource(calls[1]))
    /\ CallId(calls[2]) = CallId(calls[1])
    /\ ~Ranked(CallSource(calls[2]))
    /\ calls[2].location # calls[1].location
    /\ processed_locations[CallId(calls[1])] = calls[1].location

\* the call's record with its source type replaced by the canonical code
Canonical(c) ==
    [f \in DOMAIN c.location |->
        IF f = "weather_source" THEN clean_weather_source(c.location[f])
        ELSE c.location[f]]

\* C6: add_location ranks the incoming record by the canonical code of its
\* source type and stores the canonical code in the retained record.
C6_Canonicalized ==
    \A k \in 1..Len(calls) :
        LET c == calls[k]
            id == CallId(c)
        IN  /\ id \notin DOMAIN c.before => c.after[id] = Canonical(c)
            /\ id \in DOMAIN c.before =>
                   IF Rank(clean_weather_source(CallSource(c))) > Rank(ExistingSource(c))
                   THEN c.after[id] = Canonical(c)
                   ELSE c.after = c.before

----------------------------------------------------------------------------
(* Properties of the crawl, checked under Spec and FairSpec *)

\* the loop has left url position u behind
Finished(u) == u < i \/ (u = i /\ pc \in {"for", "done"})

\* no fetch attempt of url position u succeeded
AllAttemptsFailed(u) == \A j \in 1..Len(attempts[u]) : ~attempts[u][j]

\* C7: a url whose every fetch attempt failed was fetched exactly MAX_RETRIES
\* times when the loop leaves it, it is then reported as a fetch failure and
\* no record comes from it; no url is ever fetched more than MAX_RETRIES times.
C7_RetryExhaustion ==
    \A u \in DOMAIN urls :
        /\ Len(attempts[u]) <= MAX_RETRIES
        /\ (Finished(u) /\ AllAttemptsFailed(u)) =>
               /\ Len(attempts[u]) = MAX_RETRIES
               /\ outcome[u] = "fetch_failed"
               /\ parsed[u] = None
        /\ outcome[u] = "fetch_failed" =>
               (Len(attempts[u]) = MAX_RETRIES /\ AllAttemptsFailed(u))

\* the crawl is over and a url failed every fetch while another gave a record
C7_Witness ==
    /\ pc = "done"
    /\ \E u \in DOMAIN urls :
           /\ outcome[u] = "fetch_failed"
           /\ Len(attempts[u]) = MAX_RETRIES
    /\ \E u \in DOMAIN urls : outcome[u] = "inserted"

\* what holds of the crawl at every step for C8
C8_Safe ==
    /\ raised = NoException
    /\ pc # "raised"
    /\ visited = UrlList(i)
    /\ pc # "done" => ENABLED Next
    /\ pc = "done" =>
           /\ i = Len(urls)
           /\ \A u \in DOMAIN urls :
                  /\ Len(attempts[u]) >= 1
                  /\ outcome[u] \in {"fetch_failed", "decode_failed", "malformed", "inserted"}
           /\ urls = <<>> => processed_locations = EmptyStore

\* C8: whatever fails for a url, no exception leaves the crawl, the urls are
\* taken in list order without a gap, the crawl ends only with the list
\* exhausted and every url attempted, and it does end; an empty list gives an
\* empty mapping.
C8_NeverFatal == []C8_Safe /\ <>(pc = "done")

\* the crawl is over after a fetch failure, a decode failure and a malformed
\* line or an inserted record
C8_Witness ==
    /\ pc = "done"
    /\ Len(urls) >= 2
    /\ outcome[1] \in {"fetch_failed", "decode_failed", "malformed"}
    /\ outcome[2] \in {"malformed", "inserted"}
    /\ outcome[1] # outcome[2]

----------------------------------------------------------------------------
(* Properties of _fetch_epw_header, checked under SpecFetch *)

\* nothing was raised on the way to the body and while reading it
NoErrorRaised(r) ==
    /\ r.get_raises = NoException
    /\ ~(400 <= r.status_code /\ r.status_code < 600)
    /\ r.content_raises = NoException

----------------------------------------------------------------------------
(* Properties of parse_epw_location_line, checked under SpecParse *)

\* C10: the parser raises the malformed-record error exactly when the first
\* comma-separated token is not LOCATION or the number of tokens after it is
\* not 9; every other line yields a record.
C10_MalformedIff ==
    pc = "parse_returned" =>
        IF tokens[1] # T_LOCATION \/ Len(tokens) - 1 # 9
        THEN raised = "MalformedLocationDataError" /\ new_location = None
        ELSE raised = NoException /\ new_location # None

\* a wrong marker in front of 9 fields was rejected
C10_Witness ==
    /\ pc = "parse_returned"
    /\ tokens[1] = T_NOLOCATION
    /\ Len(tokens) - 1 = 9
    /\ raised = "MalformedLocationDataError"

\* C11: for every accepted line the record has the region key, and its region
\* is the empty string when the region token has fewer than 2 characters (the
\* sentinel "-" and the empty token among them) and the token unchanged otherwise.
C11_RegionRule ==
    (pc = "parse_returned" /\ new_location # None) =>
        /\ "region" \in DOMAIN new_location[1]
        /\ new_location[1]["region"] = IF Len(tokens[3]) < 2 THEN <<>> ELSE tokens[3]

\* the sentinel "-" was cleared
C11_Witness ==
    /\ pc = "parse_returned"
    /\ new_location # None
    /\ tokens[3] = T_dash
    /\ new_location[1]["region"] = <<>>

\* C12: for every accepted line the 9 tokens after the marker are mapped by
\* position onto the field names, and country, source type, station id,
\* latitude, longitude, UTC offset and elevation equal their tokens character
\* for character.
C12_PassThrough ==
    (pc = "parse_returned" /\ new_location # None) =>
        LET rec == new_location[1]
        IN  /\ DOMAIN rec = {FIELD_NAMES[j] : j \in 1..9}
            /\ rec["country"] = tokens[4]
            /\ rec["weather_source"] = tokens[5]
            /\ rec["wmo_index"] = tokens[6]
            /\ rec["latitude"] = tokens[7]
            /\ rec["longitude"] = tokens[8]
            /\ rec["tz_offset"] = tokens[9]
            /\ rec["elevation"] = tokens[10]

\* lower-case, blank-padded and non-numeric tokens came through as they were
C12_Witness ==
    /\ pc = "parse_returned"
    /\ new_location # None
    /\ tokens[4] = <<"u","s","a">>
    /\ new_location[1]["country"] = <<"u","s","a">>
    /\ new_location[1]["weather_source"] = <<" ","t","m","y"," ">>
    /\ new_location[1]["latitude"] = <<"n","a","n">>

\* C14, as claimed: every record the parser constructs has exactly the 9
\* fields, the region key among them, and a non-empty station id.
C14_RecordInvariant ==
    (pc = "parse_returned" /\ new_location # None) =>
        /\ DOMAIN new_location[1] = {FIELD_NAMES[j] : j \in 1..9}
        /\ "region" \in DOMAIN new_location[1]
        /\ new_location[1]["wmo_index"] # <<>>

\* C14, amended: every record the parser constructs has exactly the 9 fields,
\* the region key among them; its station id is empty exactly when the fifth
\* token after the marker is empty.
C14_RecordShape ==
    (pc = "parse_returned" /\ new_location # None) =>
        /\ Cardinality(DOMAIN new_location[1]) = 9
        /\ \A j \in 1..9 : FIELD_NAMES[j] \in DOMAIN new_location[1]
        /\ "region" \in DOMAIN new_location[1]
        /\ (new_location[1]["wmo_index"] = <<>>) <=> (tokens[6] = <<>>)

\* a line with an empty station id gave a record with an empty station id
C14_Witness ==
    /\ pc = "parse_returned"
    /\ new_location # None
    /\ tokens[6] = <<>>
    /\ new_location[1]["wmo_index"] = <<>>
    /\ Cardinality(DOMAIN new_location[1]) = 9

----------------------------------------------------------------------------
(* Properties of extract_epw_location_line, checked under SpecExtract *)

\* the text the buffer of the harness decodes to
DecodedText == try_decode_bytes(epw_header[1])[1]

AllBlank(s) == \A j \in 1..Len(s) : s[j] \in Whitespace

\* line is text with the blanks at both ends, and only those, taken off
Trimmed(text, line) ==
    /\ line # <<>> => (line[1] \notin Whitespace /\ line[Len(line)] \notin Whitespace)
    /\ \E a \in 0..(Len(text) - Len(line)) :
          /\ SubSeq(text, a + 1, a + Len(line)) = line
          /\ AllBlank(SubSeq(text, 1, a))
          /\ AllBlank(SubSeq(text, a + Len(line) + 1, Len(text)))

\* C13: for a buffer whose decoded text has no newline the extraction returns
\* None, never a truncated line; for a buffer with a newline it returns the text
\* before the first newline with the surrounding whitespace trimmed.
C13_NoNewlineFails ==
    pc = "extract_returned" =>
        IF \A j \in 1..Len(DecodedText) : DecodedText[j] # "\n"
        THEN first_line = None
        ELSE /\ first_line # None
             /\ \E p \in 1..Len(DecodedText) :
                   /\ DecodedText[p] = "\n"
                   /\ \A k \in 1..(p - 1) : DecodedText[k] # "\n"
                   /\ Trimmed(SubSeq(DecodedText, 1, p - 1), first_line[1])

\* a non-empty buffer without a newline gave None
C13_Witness ==
    /\ pc = "extract_returned"
    /\ Len(epw_header[1]) > 2
    /\ \A j \in 1..Len(epw_header[1]) : epw_header[1][j] # "\n"
    /\ first_line = None

----------------------------------------------------------------------------
(* Properties of the crawl's messages, checked under Spec *)

Inserted == {u \in DOMAIN outcome : outcome[u] = "inserted"}

Failed == {u \in DOMAIN outcome :
              outcome[u] \in {"fetch_failed", "decode_failed", "malformed"}}

\* C16, as claimed: in every progress message and in the summary the count of
\* inserted urls plus the count of failed urls is the number of urls attempted
\* so far, the total of the summary is the number of urls attempted, and the
\* number of unique stations never exceeds the success count.
C16_CountsConsistent ==
    \A k \in DOMAIN log :
        /\ log[k].unique <= log[k].processed
        /\ log[k].kind = "progress" =>
              log[k].processed + log[k].failures = log[k].attempted
        /\ log[k].kind = "summary" =>
              /\ log[k].processed = Cardinality(Inserted)
              /\ log[k].processed + Cardinality(Failed) = log[k].attempted
              /\ log[k].total = log[k].attempted

----------------------------------------------------------------------------
(* Properties of the order of the crawl's calls, checked under Spec *)

IsEvent(k, kind) == k \in DOMAIN events /\ events[k][1] = kind

\* C17: a delay follows every fetch attempt, successful or failed: between two
\* consecutive fetch attempts (of one url or of two) exactly one delay occurs,
\* and after a successful attempt the delay comes before that url's header is
\* decoded, parsed and merged.
C17_DelayAfterEveryFetch ==
    /\ \A k \in DOMAIN events :
          /\ (IsEvent(k, "fetch") /\ k < Len(events)) =>
                events[k + 1] = <<"sleep", events[k][2]>>
          /\ IsEvent(k, "sleep") =>
                (k > 1 /\ events[k - 1] = <<"fetch", events[k][2]>>)
          /\ IsEvent(k, "extract") =>
                (k > 2 /\ events[k - 1] = <<"sleep", events[k][2]>>
                       /\ events[k - 2] = <<"fetch", events[k][2]>>)
          /\ IsEvent(k, "parse") => (k > 1 /\ events[k - 1] = <<"extract", events[k][2]>>)
          /\ IsEvent(k, "merge") => (k > 1 /\ events[k - 1] = <<"parse", events[k][2]>>)
    /\ \A k, l \in DOMAIN events :
          (k < l /\ IsEvent(k, "fetch") /\ IsEvent(l, "fetch")
                 /\ \A m \in (k + 1)..(l - 1) : ~IsEvent(m, "fetch")) =>
              Cardinality({m \in (k + 1)..(l - 1) : IsEvent(m, "sleep")}) = 1
    /\ (events # <<>> /\ IsEvent(Len(events), "fetch")) => pc = "sleep"

\* a failed attempt, a delay, a successful attempt of the same url, a delay,
\* and only then the header decoded; later the next url fetched
C17_Witness ==
    /\ pc = "done"
    /\ \E k \in DOMAIN events :
          /\ k + 5 <= Len(events)
          /\ SubSeq(events, k, k + 4) =
                <<<<"fetch", 1>>, <<"sleep", 1>>, <<"fetch", 1>>, <<"sleep", 1>>,
                  <<"extract", 1>>>>
          /\ \E l \in (k + 5)..Len(events) : events[l] = <<"fetch", 2>>

\* C19: retries are local to one url: each url starts with a fresh attempt
\* count and gets at least 1 and at most MAX_RETRIES fetch attempts whatever
\* earlier urls consumed; it is never fetched after its first success, and is
\* fetched again only after a failed attempt of its own; one url's fetch,
\* decode, parse and merge are over before the next url's first attempt.
C19_RetriesLocal ==
    /\ \A u \in DOMAIN urls :
          /\ Len(attempts[u]) <= MAX_RETRIES
          /\ Finished(u) => Len(attempts[u]) >= 1
          /\ \A j \in 1..(Len(attempts[u]) - 1) : ~attempts[u][j]
          /\ Len(attempts[u]) = Cardinality({k \in DOMAIN events : events[k] = <<"fetch", u>>})
          /\ u < i => outcome[u] # "pending"
          /\ u > i => (attempts[u] = <<>> /\ outcome[u] = "pending")
    /\ pc \in {"while", "sleep"} => retries = Len(attempts[i])
    /\ \A k, l \in DOMAIN events : k < l => events[k][2] <= events[l][2]

\* the first url used up MAX_RETRIES attempts, the second still got
\* MAX_RETRIES of its own and succeeded with the last
C19_Witness ==
    /\ pc = "done"
    /\ Len(urls) >= 2
    /\ attempts[1] = <<FALSE, FALSE, FALSE>>
    /\ attempts[2] = <<FALSE, FALSE, TRUE>>
    /\ outcome[2] = "inserted"

----------------------------------------------------------------------------
(* Properties of the mapping the crawl returns, checked under Spec *)

\* the url positions a record was parsed from, and those of one station id
Parsed == {u \in DOMAIN urls : parsed[u] # None}

ParsedFor(id) == {u \in Parsed : parsed[u][1]["wmo_index"] = id}

RankOf(u) == Rank(parsed[u][1]["weather_source"])

\* the position whose record is to be retained for id: highest rank, and the
\* first in url order among those
Best(id) ==
    CHOOSE u \in ParsedFor(id) :
        \A v \in ParsedFor(id) :
            RankOf(u) > RankOf(v) \/ (RankOf(u) = RankOf(v) /\ u <= v)

\* C18: after a crawl the returned mapping has exactly one entry for each
\* station id of a fetched, decoded and parsed record, under that record's own
\* id; the retained record is the one of highest rank among the records of the
\* id, the first in url order among equals; failed urls contribute nothing.
C18_ReturnedMapping ==
    pc = "done" =>
        /\ DOMAIN processed_locations = {parsed[u][1]["wmo_index"] : u \in Parsed}
        /\ \A id \in DOMAIN processed_locations :
              /\ processed_locations[id]["wmo_index"] = id
              /\ processed_locations[id] = parsed[Best(id)][1]
        /\ \A u \in DOMAIN urls : outcome[u] # "inserted" => parsed[u] = None
        /\ \A u \in Parsed : outcome[u] = "inserted"

\* two records of one station with equal rank: the first was kept
C18_Witness ==
    /\ pc = "done"
    /\ Len(urls) >= 2
    /\ parsed[1] # None /\ parsed[2] # None
    /\ parsed[1] # parsed[2]
    /\ parsed[1][1]["wmo_index"] = parsed[2][1]["wmo_index"]
    /\ RankOf(1) = RankOf(2)
    /\ processed_locations[parsed[1][1]["wmo_index"]] = parsed[1][1]

----------------------------------------------------------------------------
(* Properties of a top-level run, checked under SpecMain *)

Occurrences(kind) == {k \in DOMAIN events : events[k] = kind}

\* C15: in a run the exporter is invoked at most once and only after the crawl
\* has returned; a run whose crawl yields no record writes no output file; a
\* run whose crawl raises never invokes the exporter and still ends normally,
\* the error caught once at the outermost boundary.
C15_ExportOnceAfterCrawl ==
    /\ Cardinality(Occurrences("locations_to_csv")) <= 1
    /\ \A k \in Occurrences("locations_to_csv") :
          \E j \in Occurrences("crawl_returned") : j < k
    /\ (final_locations # None /\ final_locations[1] = EmptyStore) =>
          /\ Occurrences("file_written") = {}
          /\ Occurrences("file_partial") = {}
    /\ Occurrences("crawl_raised") # {} =>
          /\ Occurrences("locations_to_csv") = {}
          /\ Occurrences("file_written") = {}
          /\ pc # "main_raised"
          /\ Cardinality(Occurrences("critical")) <= 1
          /\ pc = "main_returned" =>
                (raised = NoException /\ Cardinality(Occurrences("critical")) = 1)

\* the crawl raised, the run logged it once and ended without exporting
C15_Witness ==
    /\ pc = "main_returned"
    /\ events = <<"crawl_called", "crawl_raised", "critical", "finished">>

====
